---- MODULE Spec2Model ----
(***************************************************************************)
(* Java_com_sillytavern_apk_MainActivity_startNodeWithArguments            *)
(* (android/app/src/main/cpp/native-lib.cpp): the JNI entry point that     *)
(* packs a Java String[] into one contiguous argv buffer, calls            *)
(* node::Start and frees the buffer.                                        *)
(*                                                                         *)
(* One action per statement of the function; pc names the source line the  *)
(* next statement is on.  The function is straight-line, single-threaded   *)
(* code, so exactly one action is enabled until it returns or the process  *)
(* dies on a fault ("crashed").                                            *)
(***************************************************************************)
EXTENDS Integers, Sequences, FiniteSets, TLC

\* ------------------------------------------------------------- bounds
\* Longest argument list, longest ordinary string, bytes of mapped heap
\* that start at the address calloc hands out.
MaxArgs == 3
MaxLen == 1
HeapCap == 8

\* ------------------------------------------------- program constants
\* `int c_arguments_size` is a 32-bit signed integer.
INT_MAX == 2147483647
INT_MIN == (-INT_MAX) - 1

\* Non-zero bytes of a modified-UTF-8 string (GetStringUTFChars never
\* yields an embedded zero byte: U+0000 is encoded as C0 80).
Chars == {1, 2}

\* Values node::Start may return.
ExitCodes == {-1, 0, 1}

\* A string whose UTF-8 form is too long to enumerate byte by byte.
HugeLen == INT_MAX - 1

\* A Java string, by its modified-UTF-8 form: `len` bytes, byte k being
\* unit[k mod Len(unit)]; an ordinary string has unit = its bytes.
ShortStrings ==
    { [unit |-> s, len |-> Len(s)] : s \in UNION { [1..n -> Chars] : n \in 0..MaxLen } }

HugeStrings == { [unit |-> <<1>>, len |-> HugeLen] }

JavaStrings == ShortStrings \cup HugeStrings

ArgumentLists == UNION { [1..n -> JavaStrings] : n \in 0..MaxArgs }

\* strlen of the byte view of s
strlen(s) == s.len

\* byte k (from 0) of the byte view of s
UTFByte(s, k) == s.unit[(k % Len(s.unit)) + 1]

\* static_cast<int>(size_t): reduction modulo 2^32 into [INT_MIN, INT_MAX].
\* (Lengths here never exceed INT_MAX, the largest integer TLC holds.)
ToInt32(n) == IF n > INT_MAX THEN (n - INT_MAX - 1) + INT_MIN ELSE n

\* int + int as the target's add instruction computes it: two's complement,
\* wrapping modulo 2^32 (signed overflow is undefined in C++; the NDK build
\* without sanitizers emits a plain add).  Written so that no intermediate
\* value leaves [INT_MIN, INT_MAX].
WrapAdd(a, b) ==
    IF b >= 0 /\ a > INT_MAX - b THEN (a - INT_MAX - 1) + (b - INT_MAX - 1)
    ELSE IF b < 0 /\ a < INT_MIN - b THEN (a + INT_MAX + 1) + (b + INT_MAX + 1)
    ELSE a + b

\* ToJint with the exit code collapsed to success / failure
ToJintNormalised(v) == IF v = 0 THEN 0 ELSE 1

\* static_cast<jint>(int): jint is a 32-bit int as well.
ToJint(v) == ToInt32(v)

\* char* values: NoChars before assignment, NullChars = nullptr,
\* otherwise the byte view `id` of element idx obtained in `pass`.
NoChars == [kind |-> "uninit", id |-> 0, idx |-> 0, pass |-> 0]
NullChars == [kind |-> "null", id |-> 0, idx |-> 0, pass |-> 0]

\* an argv entry that has not been assigned
Uninit == 0 - 1

VARIABLES
    arguments,        \* the jobjectArray, as the strings it holds
    pc,               \* source line of the next statement
    argument_count, i, c_arguments_size, arg, arg_chars, arg_length,
    args_buffer,      \* "uninit", "null" or "buf"
    cap,              \* bytes the allocator granted at args_buffer
    heap,             \* the mapped heap bytes from args_buffer on
    argv,             \* char* argv[argument_count], as offsets from args_buffer
    current,          \* write cursor, as an offset from args_buffer
    result, retval,
    \* history of the calls made
    held,             \* ids of byte views obtained and not yet released
    n_get, n_rel,     \* GetStringUTFChars successes / ReleaseStringUTFChars
    n_ref_get, n_ref_del, \* GetObjectArrayElement / DeleteLocalRef
    conv_failed,      \* GetStringUTFChars returned nullptr at some point
    calloc_calls, calloc_req, \* calls of calloc, the int passed as its size
    written,          \* heap offsets the copy pass wrote
    argv_assigns,     \* per index, the number of assignments to argv[index]
    start_calls, start_argc, start_ret, \* node::Start: calls, count, returned
    frees             \* calls of free(args_buffer)

ctl == <<argument_count, i, c_arguments_size, arg_length>>
jni == <<arg, arg_chars, held, n_get, n_rel, n_ref_get, n_ref_del, conv_failed>>
mem == <<args_buffer, cap, heap, written, calloc_calls, calloc_req, frees>>
vec == <<argv, argv_assigns, current>>
callee == <<start_calls, start_argc, start_ret, result, retval>>
vars == <<arguments, pc, ctl, jni, mem, vec, callee>>

Init ==
    /\ arguments \in ArgumentLists
    /\ pc = "L13"
    /\ argument_count = 0 /\ i = 0 /\ c_arguments_size = 0
    /\ arg = Uninit /\ arg_chars = NoChars /\ arg_length = 0
    /\ args_buffer = "uninit" /\ cap = 0
    /\ heap = [a \in 0..(HeapCap - 1) |-> 1]
    /\ argv = <<>> /\ current = 0
    /\ result = 0 /\ retval = 0
    /\ held = {} /\ n_get = 0 /\ n_rel = 0 /\ n_ref_get = 0 /\ n_ref_del = 0
    /\ conv_failed = FALSE
    /\ calloc_calls = 0 /\ calloc_req = 0
    /\ written = {}
    /\ argv_assigns = <<>>
    /\ start_calls = 0 /\ start_argc = 0 /\ start_ret = 0
    /\ frees = 0

\* 1 in the size pass, 2 in the copy pass
Pass == IF pc \in {"L16", "L17", "L18", "L19", "L20", "L21"} THEN 1 ELSE 2

\* The process dies on a fault (SIGSEGV): nothing of the function runs on.
Crash == /\ pc' = "crashed"
         /\ UNCHANGED <<arguments, ctl, jni, mem, vec, callee>>

\* --------------------------------------------------------- JNI calls
\* env->GetArrayLength(arguments); int c_arguments_size = 0; int i = 0
GetArrayLength ==
    /\ pc = "L13"
    /\ argument_count' = Len(arguments)
    /\ c_arguments_size' = 0
    /\ i' = 0
    /\ pc' = "L16"
    /\ UNCHANGED <<arguments, arg_length, jni, mem, vec, callee>>

\* for (...; i < argument_count; ...)
LoopTest(at, body, exit) ==
    /\ pc = at
    /\ pc' = IF i < argument_count THEN body ELSE exit
    /\ UNCHANGED <<arguments, ctl, jni, mem, vec, callee>>

\* arg = env->GetObjectArrayElement(arguments, i): a new local reference
GetObjectArrayElement(at, next) ==
    /\ pc = at
    /\ arg' = i
    /\ n_ref_get' = n_ref_get + 1
    /\ pc' = next
    /\ UNCHANGED <<arguments, ctl, arg_chars, held, n_get, n_rel, n_ref_del,
                   conv_failed, mem, vec, callee>>

\* arg_chars = env->GetStringUTFChars(arg, nullptr): a fresh byte view of
\* the string, or nullptr when the VM cannot produce one.
GetStringUTFChars(at, next) ==
    /\ pc = at
    /\ \/ /\ arg_chars' = [kind |-> "view", id |-> n_get + 1, idx |-> arg, pass |-> Pass]
          /\ held' = held \cup {n_get + 1}
          /\ n_get' = n_get + 1
          /\ UNCHANGED conv_failed
       \/ /\ arg_chars' = NullChars
          /\ conv_failed' = TRUE
          /\ UNCHANGED <<held, n_get>>
    /\ pc' = next
    /\ UNCHANGED <<arguments, ctl, arg, n_rel, n_ref_get, n_ref_del, mem, vec, callee>>

\* env->ReleaseStringUTFChars(arg, arg_chars)
ReleaseStringUTFChars(at, next) ==
    /\ pc = at
    /\ held' = held \ {arg_chars.id}
    /\ n_rel' = n_rel + 1
    /\ pc' = next
    /\ UNCHANGED <<arguments, ctl, arg, arg_chars, n_get, n_ref_get, n_ref_del,
                   conv_failed, mem, vec, callee>>

\* env->DeleteLocalRef(arg); i++
DeleteLocalRef(at, next) ==
    /\ pc = at
    /\ arg' = Uninit
    /\ n_ref_del' = n_ref_del + 1
    /\ i' = i + 1
    /\ pc' = next
    /\ UNCHANGED <<arguments, argument_count, c_arguments_size, arg_length,
                   arg_chars, held, n_get, n_rel, n_ref_get, conv_failed,
                   mem, vec, callee>>

\* ---------------------------------------------------------- size pass
SizeLoopTest == LoopTest("L16", "L17", "L24")

SizeGetElement == GetObjectArrayElement("L17", "L18")

SizeGetChars == GetStringUTFChars("L18", "L19")

\* c_arguments_size += static_cast<int>(strlen(arg_chars)) + 1;
\* strlen(nullptr) reads address 0, which is never mapped: the process dies.
SizeAccumulate ==
    /\ pc = "L19"
    /\ \/ /\ arg_chars.kind = "null"
          /\ Crash
       \/ /\ arg_chars.kind = "view"
          /\ c_arguments_size' =
                WrapAdd(c_arguments_size,
                        WrapAdd(ToInt32(strlen(arguments[arg_chars.idx + 1])), 1))
          /\ pc' = "L20"
          /\ UNCHANGED <<arguments, argument_count, i, arg_length, jni, mem, vec, callee>>

\* SizeRelease with the ReleaseStringUTFChars call left out
SizeReleaseSkipped ==
    /\ pc = "L20"
    /\ pc' = "L21"
    /\ UNCHANGED <<arguments, ctl, jni, mem, vec, callee>>

SizeRelease == ReleaseStringUTFChars("L20", "L21")

SizeDeleteRef == DeleteLocalRef("L21", "L16")

\* --------------------------------------------------------- allocation
\* calloc(n, 1) can be granted only when n, converted to size_t, fits the
\* heap: a negative int converts to a size above 2^63.
Grantable(n) == n >= 0 /\ n <= HeapCap

\* Calloc with a null result taken for a failure: return without the call
CallocNullIsFailure ==
    /\ pc = "L24"
    /\ calloc_calls' = calloc_calls + 1
    /\ calloc_req' = c_arguments_size
    /\ \/ /\ Grantable(c_arguments_size)
          /\ args_buffer' = "buf"
          /\ cap' = c_arguments_size
          /\ heap' = [a \in 0..(HeapCap - 1) |->
                        IF a < c_arguments_size THEN 0 ELSE heap[a]]
          /\ pc' = "L28"
          /\ UNCHANGED retval
       \/ /\ args_buffer' = "null"
          /\ retval' = INT_MIN
          /\ pc' = "returned"
          /\ UNCHANGED <<cap, heap>>
    /\ argv' = [k \in 1..argument_count |-> Uninit]
    /\ argv_assigns' = [k \in 1..argument_count |-> 0]
    /\ current' = 0
    /\ i' = 0
    /\ UNCHANGED <<arguments, argument_count, c_arguments_size, arg_length,
                   jni, written, frees, start_calls, start_argc, start_ret, result>>

\* args_buffer = calloc(c_arguments_size, sizeof(char));
\* char* argv[argument_count]; char* current = args_buffer; int i = 0
\* calloc returns zeroed memory of the size asked for, or nullptr: always
\* when the size cannot be granted, possibly when the heap is exhausted,
\* and possibly for a request of zero bytes.
Calloc ==
    /\ pc = "L24"
    /\ calloc_calls' = calloc_calls + 1
    /\ calloc_req' = c_arguments_size
    /\ \/ /\ Grantable(c_arguments_size)
          /\ args_buffer' = "buf"
          /\ cap' = c_arguments_size
          /\ heap' = [a \in 0..(HeapCap - 1) |->
                        IF a < c_arguments_size THEN 0 ELSE heap[a]]
       \/ /\ args_buffer' = "null"
          /\ UNCHANGED <<cap, heap>>
    /\ argv' = [k \in 1..argument_count |-> Uninit]
    /\ argv_assigns' = [k \in 1..argument_count |-> 0]
    /\ current' = 0
    /\ i' = 0
    /\ pc' = "L28"
    /\ UNCHANGED <<arguments, argument_count, c_arguments_size, arg_length,
                   jni, written, frees, callee>>

\* ---------------------------------------------------------- copy pass
CopyLoopTest == LoopTest("L28", "L29", "L42")

CopyGetElement == GetObjectArrayElement("L29", "L30")

CopyGetChars == GetStringUTFChars("L30", "L31")

\* const size_t arg_length = strlen(arg_chars);
CopyStrlen ==
    /\ pc = "L31"
    /\ \/ /\ arg_chars.kind = "null"
          /\ Crash
       \/ /\ arg_chars.kind = "view"
          /\ arg_length' = strlen(arguments[arg_chars.idx + 1])
          /\ pc' = "L33"
          /\ UNCHANGED <<arguments, argument_count, i, c_arguments_size,
                         jni, mem, vec, callee>>

\* the one byte '\0'
Terminator == [unit |-> <<0>>, len |-> 1]

\* A store of the first n bytes of src at offset off of args_buffer.  Through nullptr
\* it faults.  Past the mapped heap it faults.  Inside the heap but past the
\* cap bytes granted it is a heap overflow: the bytes land in a neighbouring
\* object, or a hardened allocator faults.  Otherwise the bytes are stored.
Store(off, n, src, next) ==
    \/ /\ n > 0
       /\ \/ args_buffer = "null"
          \/ n > HeapCap - off
          \/ args_buffer = "buf" /\ n > cap - off
       /\ Crash
    \/ /\ args_buffer = "buf"
       /\ n <= HeapCap - off
       /\ heap' = [a \in 0..(HeapCap - 1) |->
                     IF a >= off /\ a - off < n THEN UTFByte(src, a - off) ELSE heap[a]]
       /\ written' = written \cup {a \in 0..(HeapCap - 1) : a >= off /\ a - off < n}
       /\ pc' = next
       /\ UNCHANGED <<arguments, ctl, jni, args_buffer, cap, calloc_calls,
                      calloc_req, frees, vec, callee>>
    \/ /\ args_buffer = "null"
       /\ n = 0
       /\ pc' = next
       /\ UNCHANGED <<arguments, ctl, jni, mem, vec, callee>>

\* memcpy(current, arg_chars, arg_length);
CopyBytes ==
    /\ pc = "L33"
    /\ Store(current, arg_length, arguments[arg_chars.idx + 1], "L34")

\* current[arg_length] = '\0';
WriteTerminator ==
    /\ pc = "L34"
    /\ IF arg_length >= HeapCap - current
         THEN Crash
         ELSE Store(current + arg_length, 1, Terminator, "L35")

\* argv[i] = current;
AssignArgv ==
    /\ pc = "L35"
    /\ argv' = [argv EXCEPT ![i + 1] = current]
    /\ argv_assigns' = [argv_assigns EXCEPT ![i + 1] = @ + 1]
    /\ pc' = "L37"
    /\ UNCHANGED <<arguments, ctl, jni, mem, current, callee>>

\* AdvanceCursor without the byte of the terminator
AdvanceCursorNoTerminator ==
    /\ pc = "L37"
    /\ current' = current + arg_length
    /\ pc' = "L38"
    /\ UNCHANGED <<arguments, ctl, jni, mem, argv, argv_assigns, callee>>

\* current += arg_length + 1;
AdvanceCursor ==
    /\ pc = "L37"
    /\ current' = current + arg_length + 1
    /\ pc' = "L38"
    /\ UNCHANGED <<arguments, ctl, jni, mem, argv, argv_assigns, callee>>

CopyRelease == ReleaseStringUTFChars("L38", "L39")

CopyDeleteRef == DeleteLocalRef("L39", "L28")

\* ------------------------------------------------ invocation, teardown
\* node::Start(argument_count, argv) is entered ...
StartCall ==
    /\ pc = "L42"
    /\ start_calls' = start_calls + 1
    /\ start_argc' = argument_count
    /\ pc' = "in_start"
    /\ UNCHANGED <<arguments, ctl, jni, mem, vec, start_ret, result, retval>>

\* ... and returns: const int result = node::Start(...)
StartReturn ==
    /\ pc = "in_start"
    /\ \E r \in ExitCodes :
          /\ start_ret' = r
          /\ result' = r
    /\ pc' = "L43"
    /\ UNCHANGED <<arguments, ctl, jni, mem, vec, start_calls, start_argc, retval>>

\* free(args_buffer);  (free(nullptr) does nothing)
Free ==
    /\ pc = "L43"
    /\ frees' = frees + 1
    /\ pc' = "L45"
    /\ UNCHANGED <<arguments, ctl, jni, args_buffer, cap, heap, written,
                   calloc_calls, calloc_req, vec, callee>>

\* return static_cast<jint>(result);
Return ==
    /\ pc = "L45"
    /\ retval' = ToJint(result)
    /\ pc' = "returned"
    /\ UNCHANGED <<arguments, ctl, jni, mem, vec, start_calls, start_argc,
                   start_ret, result>>

Next ==
    \/ GetArrayLength
    \/ SizeLoopTest \/ SizeGetElement \/ SizeGetChars \/ SizeAccumulate
    \/ SizeRelease \/ SizeDeleteRef
    \/ Calloc
    \/ CopyLoopTest \/ CopyGetElement \/ CopyGetChars \/ CopyStrlen
    \/ CopyBytes \/ WriteTerminator \/ AssignArgv \/ AdvanceCursor
    \/ CopyRelease \/ CopyDeleteRef
    \/ StartCall \/ StartReturn \/ Free \/ Return

Spec == Init /\ [][Next]_vars

\* ------------------------------------------------------------ notions
\* the function has returned to the JVM, or the process has died
Terminated == pc \in {"returned", "crashed"}

\* what the caller of startNodeWithArguments gets: the function has only
\* one return statement, which hands back node::Start's integer, and no
\* path on which it reports an error of its own.
Outcome ==
    IF pc = "returned" THEN "exit code"
    ELSE IF pc = "crashed" THEN "fault"
    ELSE "running"

\* node::Start has been reached: the call is about to be made or is running
AtInvocation == pc \in {"L42", "in_start"}

\* The bytes a reader of a C string finds at offset off of args_buffer, up
\* to the first zero byte; <<-1>> marks a read that leaves the mapped heap.
RECURSIVE ReadCStr(_, _)
ReadCStr(h, off) ==
    IF off < 0 \/ off >= HeapCap THEN << -1 >>
    ELSE IF h[off] = 0 THEN << >>
    ELSE << h[off] >> \o ReadCStr(h, off + 1)

\* bs is exactly the byte view of the Java string s
SameBytes(bs, s) ==
    /\ Len(bs) = strlen(s)
    /\ \A k \in 1..Len(bs) : bs[k] = UTFByte(s, k - 1)

\* The mathematical sum of (length + 1) over the strings of list: val, or
\* over = TRUE when it exceeds INT_MAX.
RECURSIVE Total(_)
Total(list) ==
    IF list = << >> THEN [over |-> FALSE, val |-> 0]
    ELSE LET t == Total(Tail(list))
         IN  IF t.over \/ strlen(Head(list)) >= INT_MAX - t.val
               THEN [over |-> TRUE, val |-> 0]
               ELSE [over |-> FALSE, val |-> t.val + strlen(Head(list)) + 1]

\* sum of (length_j + 1) over the first n arguments
PrefixTotal(n) == Total(SubSeq(arguments, 1, n))

\* -------------------------------------------------------------- claims
\* C1: when node::Start is invoked, the C string at argv[k] is byte for byte
\* the k-th argument, in the order of the argument list.
C1_RoundTrip ==
    AtInvocation =>
        \A k \in 1..Len(arguments) :
            /\ argv[k] # Uninit
            /\ SameBytes(ReadCStr(heap, argv[k]), arguments[k])

C1_Witness ==
    /\ pc = "in_start"
    /\ Len(arguments) = 2
    /\ strlen(arguments[1]) = 1
    /\ strlen(arguments[2]) = 1
    /\ arguments[1] # arguments[2]

\* C2: the size handed to calloc is exactly the sum of (length_i + 1), and
\* argv has N entries, each assigned exactly once.
C2_SizeIsSum ==
    /\ calloc_calls > 0 =>
          /\ ~Total(arguments).over
          /\ calloc_req = Total(arguments).val
    /\ AtInvocation =>
          /\ Len(argv) = Len(arguments)
          /\ \A k \in 1..Len(arguments) : argv_assigns[k] = 1

\* C3: every byte the copy pass writes lies inside the allocated buffer;
\* after the copy pass argv[k] sits at the sum of the earlier slots, the
\* slots are pairwise disjoint and the cursor ends at the total.
C3_Layout ==
    /\ \A o \in written : o < cap
    /\ AtInvocation =>
          /\ \A k \in 1..Len(arguments) : argv[k] = PrefixTotal(k - 1).val
          /\ \A j, k \in 1..Len(arguments) :
                j < k => argv[j] + strlen(arguments[j]) < argv[k]
          /\ current = Total(arguments).val

\* C4: when a conversion fails, a ConversionError is reported, nothing is
\* allocated and node::Start is not invoked.
C4_ConversionErrorReported ==
    conv_failed =>
        /\ calloc_calls = 0
        /\ start_calls = 0
        /\ Terminated => Outcome = "ConversionError"

\* C5: when calloc returns null for the requested total (and every
\* conversion succeeded), the operation ends by reporting an AllocationError,
\* not in a fault on a store through the null pointer, and node::Start is
\* not invoked.
C5_AllocationErrorReported ==
    (args_buffer = "null" /\ calloc_req # 0 /\ ~conv_failed) =>
        /\ start_calls = 0
        /\ Terminated => Outcome = "AllocationError"

\* C6: when the sum of (length_i + 1) does not fit the int accumulator (and
\* every conversion succeeded), the operation stops with an allocation error before the copy pass and never
\* goes on with a wrapped size.
C6_OverflowDetected ==
    (Total(arguments).over /\ ~conv_failed) =>
        /\ calloc_calls = 0
        /\ pc \notin {"L28", "L29", "L30", "L31", "L33", "L34", "L35", "L37",
                      "L38", "L39", "L42", "in_start", "L43", "L45"}
        /\ start_calls = 0
        /\ Terminated => Outcome = "AllocationError"

\* C7: every path ends in Released with the buffer released exactly once,
\* after node::Start has returned and never while it runs.
C7_ReleasedOnEveryPath ==
    /\ Terminated => (pc = "returned" /\ frees = 1)
    /\ frees <= 1
    /\ frees = 1 => pc \in {"L45", "returned"}
    /\ pc = "in_start" => frees = 0

\* C8: node::Start is invoked at most once, with count N, and the value the
\* function returns is the value node::Start returned.
C8_ExitCodeRelayed ==
    /\ start_calls <= 1
    /\ start_calls = 1 => start_argc = Len(arguments)
    /\ pc = "returned" => (start_calls = 1 /\ retval = start_ret)

C8_Witness ==
    /\ pc = "returned"
    /\ Len(arguments) > 0
    /\ start_ret < 0

\* C9: for an empty list the size is 0, argv is empty, nothing is converted
\* or written, and node::Start is invoked once with count 0 and its result
\* returned, whatever calloc(0) gave.
C9_EmptyList ==
    Len(arguments) = 0 =>
        /\ c_arguments_size = 0
        /\ calloc_calls > 0 => calloc_req = 0
        /\ argv = << >>
        /\ n_get = 0 /\ n_ref_get = 0 /\ ~conv_failed
        /\ written = {}
        /\ pc # "crashed"
        /\ start_calls = 1 => start_argc = 0
        /\ pc = "returned" => (start_calls = 1 /\ retval = start_ret)

C9_Witness ==
    /\ Len(arguments) = 0
    /\ pc = "returned"
    /\ args_buffer = "null"
    /\ retval = 1

\* C10: at most one byte view and one local reference are held at a time,
\* a view is used only in the iteration that obtained it, each iteration
\* releases what it acquired, and when node::Start is invoked 2N views and
\* references have been acquired and released.
C10_ScopedViews ==
    /\ Cardinality(held) <= 1
    /\ n_ref_get - n_ref_del <= 1
    /\ (pc \in {"L19", "L31", "L33", "L34"} /\ arg_chars.kind = "view") =>
          /\ arg_chars.id \in held
          /\ arg_chars.pass = Pass
          /\ arg_chars.idx = i
    /\ pc \in {"L16", "L24", "L28", "L42", "in_start"} =>
          /\ held = {}
          /\ n_get = n_rel
          /\ n_ref_get = n_ref_del
    /\ pc = "in_start" =>
          /\ n_get = 2 * Len(arguments)
          /\ n_rel = 2 * Len(arguments)
          /\ n_ref_get = 2 * Len(arguments)

C10_Witness ==
    /\ pc = "in_start"
    /\ Len(arguments) >= 2
    /\ n_rel = 2 * Len(arguments)

====
